---- MODULE Spec2Model ----
(***************************************************************************)
(* Model of the image-to-embedded-asset scripts of Rust_Watch_Project:     *)
(*   466x466_original_images/make_spans.py   (full frame + sprite RLE)     *)
(*   Watch_rs/raw_images/image_converter.py  (dense RGB565 export)         *)
(*   src/assets/pack_assets.py               (zlib compression batch)      *)
(***************************************************************************)
EXTENDS Integers, Sequences, FiniteSets, TLC

VARIABLES
    \* ---- make_spans.py: main ----
    targets,          \* the list `targets` (one record per path)
    ti,               \* position of the `for src in targets` loop (1-based)
    spc,              \* "loop" | "done" | "crashed" (uncaught exception)
    full_raw,         \* local full_raw of the last processed target
    rle,              \* local rle of the last processed target
    rows_runs,        \* row_runs of every row y of the last processed target
    run_pixels_total, \* local run_pixels_total of the last processed target
    disk,             \* per target: the artifacts written for it
    \* ---- image_converter.py: to_rgb565_be_bytes ----
    cimg,             \* the decoded image handed to to_rgb565_be_bytes
    conv_mode,        \* img.mode of the call ("none" before the call)
    conv_out,         \* the bytes returned
    \* ---- rgb888_to_rgb565_be / to_rgb565_be_bytes on one pixel ----
    chan,             \* the channel triple <<r, g, b>>
    packed,           \* struct.pack(">H", masking form), or <<>> before
    shifted,          \* v of the shifting form, or -1 before
    shifted_bytes,    \* struct.pack(">H", v), or <<>> before
    \* ---- pack_assets.py ----
    level, force, overwrite, \* args.level, args.force, args.overwrite
    fs_raw,           \* the *.raw paths of the folder: path -> [dims, len]
    fs_out,           \* path -> content of path + ".zlib" (<<>>: absent)
    files,            \* the list `files` (<<>> before line 56)
    fi,               \* position of the `for f in files` loop (1-based)
    ok,               \* the counter ok
    ppc,              \* "start" | "loop" | "exit"
    exit_code,        \* the status given to sys.exit (-1 while running)
    attempts,         \* the paths handed to compress_one, in call order
    results,          \* per call: "True" | "False" | "raise"
    last,             \* the last compress_one call and what it did
    enumerated,       \* the folder has been globbed
    reads,            \* paths read with read_bytes
    writes            \* paths whose .zlib was written with write_bytes

spansVars == <<targets, ti, spc, full_raw, rle, rows_runs, run_pixels_total, disk>>
convVars  == <<cimg, conv_mode, conv_out>>
codecVars == <<chan, packed, shifted, shifted_bytes>>
packVars  == <<level, force, overwrite, fs_raw, fs_out, files, fi, ok, ppc,
               exit_code, attempts, results, last, enumerated, reads, writes>>

-----------------------------------------------------------------------------
(* Bounds of the model *)
MaxW == 4
MaxH == 3
MaxPixels == 6
MaxTargets == 3
MaxFiles == 2

-----------------------------------------------------------------------------
(* Python integer operators on non-negative ints *)

RECURSIVE BitAnd(_, _)
BitAnd(a, b) ==
    IF a = 0 \/ b = 0 THEN 0
    ELSE (IF a % 2 = 1 /\ b % 2 = 1 THEN 1 ELSE 0) + 2 * BitAnd(a \div 2, b \div 2)

RECURSIVE BitOr(_, _)
BitOr(a, b) ==
    IF a = 0 THEN b
    ELSE IF b = 0 THEN a
    ELSE (IF a % 2 = 1 \/ b % 2 = 1 THEN 1 ELSE 0) + 2 * BitOr(a \div 2, b \div 2)

Shl(a, n) == a * (2 ^ n)
Shr(a, n) == a \div (2 ^ n)

\* struct.pack(">H", v): two bytes, high byte first; struct.error (no bytes
\* produced, modelled as the empty sequence) outside 0..65535.
PackH(v) == IF v \in 0..65535 THEN <<v \div 256, v % 256>> ELSE <<>>

\* struct.unpack(">H", bs)[0]
UnpackH(bs) == bs[1] * 256 + bs[2]

-----------------------------------------------------------------------------
(* make_spans.py *)

LIME_KEY == <<139, 227, 8>>

\* the red mask one bit too wide: (r & 0xFC) << 8
rgb888_to_rgb565_be_WideRed(r, g, b) ==
    PackH(BitOr(BitOr(Shl(BitAnd(r, 252), 8), Shl(BitAnd(g, 252), 3)), Shr(b, 3)))

rgb888_to_rgb565_be(r, g, b) ==
    PackH(BitOr(BitOr(Shl(BitAnd(r, 248), 8), Shl(BitAnd(g, 252), 3)), Shr(b, 3)))

\* pick_key_color(_img): (key565_be, key_rgb)
pick_key_color ==
    <<rgb888_to_rgb565_be(LIME_KEY[1], LIME_KEY[2], LIME_KEY[3]), LIME_KEY>>

RGB(p) == <<p[1], p[2], p[3]>>

\* the alpha test forgotten
IsKeyed_NoAlpha(p, key_rgb) == RGB(p) = key_rgb

\* the test of lines 69 and 75: (r,g,b) == key_rgb or a == 0
IsKeyed(p, key_rgb) == RGB(p) = key_rgb \/ p[4] = 0

\* the two loops exchanged: columns left to right, each top to bottom
RECURSIVE FullRawColumns(_, _, _)
FullRawColumns(img, x, y) ==
    IF x >= img.w THEN <<>>
    ELSE IF y >= img.h THEN FullRawColumns(img, x + 1, 0)
    ELSE LET p == img.px[<<x, y>>]
         IN  rgb888_to_rgb565_be(p[1], p[2], p[3]) \o FullRawColumns(img, x, y + 1)

FullRaw_ColumnMajor(img) == FullRawColumns(img, 0, 0)

\* lines 55-59: the dense buffer, rows top to bottom, pixels left to right
RECURSIVE FullRawFrom(_, _, _)
FullRawFrom(img, y, x) ==
    IF y >= img.h THEN <<>>
    ELSE IF x >= img.w THEN FullRawFrom(img, y + 1, 0)
    ELSE LET p == img.px[<<x, y>>]
         IN  rgb888_to_rgb565_be(p[1], p[2], p[3]) \o FullRawFrom(img, y, x + 1)

FullRaw(img) == FullRawFrom(img, 0, 0)

\* the inner loop leaving after one pixel
RunEnd_OnePixel(img, y, x, key_rgb) == x + 1

\* lines 73-77: the inner while loop, from x to the first keyed pixel or w
RECURSIVE RunEnd(_, _, _, _)
RunEnd(img, y, x, key_rgb) ==
    IF x < img.w /\ ~IsKeyed(img.px[<<x, y>>], key_rgb)
    THEN RunEnd(img, y, x + 1, key_rgb)
    ELSE x

\* lines 66-78: the outer while loop of one row, row_runs accumulated
RECURSIVE ScanRow(_, _, _, _, _)
ScanRow(img, y, x, key_rgb, row_runs) ==
    IF x >= img.w THEN row_runs
    ELSE IF IsKeyed(img.px[<<x, y>>], key_rgb)
         THEN ScanRow(img, y, x + 1, key_rgb, row_runs)
         ELSE LET start == x
                  xe    == RunEnd(img, y, x, key_rgb)
              IN  ScanRow(img, y, xe, key_rgb, Append(row_runs, <<start, xe - start>>))

RowRuns(img, y) == ScanRow(img, y, 0, pick_key_color[2], <<>>)

\* lines 82-84: the payload of one run
RECURSIVE RunPayload(_, _, _, _)
RunPayload(img, y, px, stop) ==
    IF px >= stop THEN <<>>
    ELSE LET p == img.px[<<px, y>>]
         IN  rgb888_to_rgb565_be(p[1], p[2], p[3]) \o RunPayload(img, y, px + 1, stop)

\* lines 80-84: every run of a row
RECURSIVE RunsBytes(_, _, _, _)
RunsBytes(img, y, row_runs, k) ==
    IF k > Len(row_runs) THEN <<>>
    ELSE LET sx == row_runs[k][1]
             ln == row_runs[k][2]
         IN  PackH(sx) \o PackH(ln) \o RunPayload(img, y, sx, sx + ln)
             \o RunsBytes(img, y, row_runs, k + 1)

\* lines 79-84: one row of the sprite buffer
RowBytes(img, y) ==
    LET row_runs == RowRuns(img, y)
    IN  PackH(Len(row_runs)) \o RunsBytes(img, y, row_runs, 1)

RECURSIVE RleRows(_, _)
RleRows(img, y) ==
    IF y >= img.h THEN <<>> ELSE RowBytes(img, y) \o RleRows(img, y + 1)

\* lines 62-84: the sprite buffer
Rle(img) ==
    LET key565 == UnpackH(pick_key_color[1])
    IN  PackH(img.w) \o PackH(img.h) \o PackH(key565) \o RleRows(img, 0)

RECURSIVE SumLens(_, _)
SumLens(row_runs, k) ==
    IF k > Len(row_runs) THEN 0 ELSE row_runs[k][2] + SumLens(row_runs, k + 1)

RECURSIVE RunPixelsTotal(_, _)
RunPixelsTotal(img, y) ==
    IF y >= img.h THEN 0
    ELSE SumLens(RowRuns(img, y), 1) + RunPixelsTotal(img, y + 1)

\* zlib.compress(data, level): lossless and opaque here
ZlibCompress(data, lvl) == [zlib |-> lvl, of |-> data]

-----------------------------------------------------------------------------
(* image_converter.py *)

\* line 23: v = ((r >> 3) << 11) | ((g >> 2) << 5) | (b >> 3)
rgb565_shift(r, g, b) ==
    BitOr(BitOr(Shl(Shr(r, 3), 11), Shl(Shr(g, 2), 5)), Shr(b, 3))

\* img.convert("RGB") of an RGBA image: the alpha channel is dropped
ConvertRGB(img) ==
    [mode |-> "RGB", w |-> img.w, h |-> img.h,
     px |-> [c \in DOMAIN img.px |-> RGB(img.px[c])]]

\* lines 19-25: the two loops writing out[i:i+2]
RECURSIVE FillOut(_, _, _, _, _)
FillOut(img, y, x, i, out) ==
    IF y >= img.h THEN out
    ELSE IF x >= img.w THEN FillOut(img, y + 1, 0, i, out)
    ELSE LET p  == img.px[<<x, y>>]
             v  == rgb565_shift(p[1], p[2], p[3])
             bs == PackH(v)
         IN  FillOut(img, y, x + 1, i + 2,
                     [out EXCEPT ![i + 1] = bs[1], ![i + 2] = bs[2]])

to_rgb565_be_bytes(img0) ==
    LET img == IF img0.mode # "RGB" THEN ConvertRGB(img0) ELSE img0
        out == [k \in 1..(img.w * img.h * 2) |-> 0]
    IN  FillOut(img, 0, 0, 0, out)

-----------------------------------------------------------------------------
(* Inputs *)

KeyOpaque == <<139, 227, 8, 255>>   \* the key colour, opaque
RedClear  == <<255, 0, 0, 0>>       \* not the key colour, alpha 0
NearKey   == <<140, 227, 8, 255>>   \* not the key colour, same RGB565 as it
GreenHalf == <<0, 255, 0, 128>>

Palette == {KeyOpaque, RedClear, NearKey, GreenHalf}

Shapes == {s \in (1..MaxW) \X (1..MaxH) : s[1] * s[2] <= MaxPixels}

Coords(w, h) == (0..(w - 1)) \X (0..(h - 1))

\* Image.open(src).convert("RGBA") results
ImagesOf(w, h) == {[mode |-> "RGBA", w |-> w, h |-> h, px |-> f] : f \in [Coords(w, h) -> Palette]}

NoImage == [mode |-> "RGBA", w |-> 1, h |-> 1, px |-> [c \in Coords(1, 1) |-> KeyOpaque]]

ImageTarget(im) == [kind |-> "image", img |-> im]
MissingTarget   == [kind |-> "missing", img |-> NoImage]
BadTarget       == [kind |-> "bad", img |-> NoImage]

\* the targets of the batch runs: one-pixel images, missing paths, bad files
BatchTargets == {ImageTarget(im) : im \in ImagesOf(1, 1)} \cup {MissingTarget, BadTarget}

ChanSamples == {0, 7, 8, 139, 227, 252, 255}

Channels == 0..255

-----------------------------------------------------------------------------
(* pack_assets.py *)

\* What RAW_RE captures from a name: <<W, H>>, or <<>> when it does not match
NoDims == <<>>

\* size_from_name(p): None (here <<>>) or (int(W), int(H))
size_from_name(f) == IF f.dims = NoDims THEN NoDims ELSE <<f.dims[1], f.dims[2]>>

\* "<" written for "!="
SizeRejected_Less(n, expected, frc) == n > expected /\ ~frc

\* line 28: the size check
SizeRejected(n, expected, frc) == n # expected /\ ~frc

\* the overwrite flag read the wrong way round
ExistsSkip_Inverted(exists, ovw) == exists /\ ovw

\* line 33: the output exists and may not be replaced
ExistsSkip(exists, ovw) == exists /\ ~ovw

\* the content left by a write_bytes that failed part way
PartialZlib == [zlib |-> -1, of |-> [src |-> 0, len |-> 0]]

\* compress_one(path, level, force, overwrite) on the file f at path id, with
\* the present output content out; rd: read_bytes succeeds; wr: what
\* write_bytes does ("ok" | "denied" | "partial", the last two raising).
\* ret is "True", "False" or "raise"; stage is the line it ended at.
compress_one(id, f, out, lvl, frc, ovw, rd, wr) ==
    LET wh       == size_from_name(f)
        expected == wh[1] * wh[2] * 2
        data     == [src |-> id, len |-> f.len]
        comp     == ZlibCompress(data, lvl)
        R(ret, stage, o, didread, didwrite) ==
            [ret |-> ret, stage |-> stage, out |-> o, read |-> didread, wrote |-> didwrite]
    IN  IF wh = NoDims THEN R("False", "name", out, FALSE, FALSE)
        ELSE IF ~rd THEN R("raise", "read", out, TRUE, FALSE)
        ELSE IF SizeRejected(data.len, expected, frc) THEN R("False", "size", out, TRUE, FALSE)
        ELSE IF ExistsSkip(out # <<>>, ovw) THEN R("True", "exists", out, TRUE, FALSE)
        ELSE IF wr = "denied" THEN R("raise", "write", out, TRUE, FALSE)
        ELSE IF wr = "partial" THEN R("raise", "write", <<PartialZlib>>, TRUE, TRUE)
        ELSE R("True", "ok", <<comp>>, TRUE, TRUE)

\* the lower limit forgotten
LevelInvalid_NoLower(lvl) == lvl > 9

\* line 51
LevelInvalid(lvl) == lvl < 0 \/ lvl > 9

\* any success taken for all
ExitStatus_AnyOk(n_ok, n_files) == IF n_ok > 0 THEN 0 ELSE 1

\* line 71
ExitStatus(n_ok, n_files) == IF n_ok = n_files THEN 0 ELSE 1

\* lines 65-66
OkAfter(n_ok, ret) == IF ret = "True" THEN n_ok + 1 ELSE n_ok

RECURSIVE Insert(_, _)
Insert(x, s) ==
    IF s = <<>> THEN <<x>>
    ELSE IF x <= Head(s) THEN <<x>> \o s
    ELSE <<Head(s)>> \o Insert(x, Tail(s))

\* sorted(paths)
RECURSIVE sorted(_)
sorted(s) == IF s = <<>> THEN <<>> ELSE Insert(Head(s), sorted(Tail(s)))

\* the orders in which glob may yield the paths of the folder
GlobOrders(S) ==
    {g \in [1..Cardinality(S) -> S] : \A a, b \in 1..Cardinality(S) : a # b => g[a] # g[b]}

Levels == {-1, 0, 9, 10}

RawDims == {NoDims, <<4, 4>>, <<1, 3>>}

RawFiles ==
    {[dims |-> d, len |-> n] : d \in RawDims \ {NoDims}, n \in 0..40}

\* a matching name with W*H*2 bytes or one byte less; a name that does not match
RawChoices ==
    {f \in RawFiles : f.len \in {f.dims[1] * f.dims[2] * 2 - 1, f.dims[1] * f.dims[2] * 2}}
    \cup {[dims |-> NoDims, len |-> 5]}

\* a .zlib left by an earlier run
OldZlib == [zlib |-> 9, of |-> [src |-> 0, len |-> 0]]

NoCall ==
    [id |-> 0, ret |-> "none", stage |-> "none", out_before |-> <<>>, out_after |-> <<>>,
     read |-> FALSE, wrote |-> FALSE, ok_before |-> 0]

PackIdle ==
    /\ files = <<>>
    /\ fi = 1
    /\ ok = 0
    /\ ppc = "start"
    /\ exit_code = -1
    /\ attempts = <<>>
    /\ results = <<>>
    /\ last = NoCall
    /\ enumerated = FALSE
    /\ reads = {}
    /\ writes = {}

PackOff ==
    /\ level = 9
    /\ force = FALSE
    /\ overwrite = FALSE
    /\ fs_raw = <<>>
    /\ fs_out = <<>>
    /\ files = <<>>
    /\ fi = 1
    /\ ok = 0
    /\ ppc = "off"
    /\ exit_code = -1
    /\ attempts = <<>>
    /\ results = <<>>
    /\ last = NoCall
    /\ enumerated = FALSE
    /\ reads = {}
    /\ writes = {}

-----------------------------------------------------------------------------
(* Initial states *)

SpansIdle ==
    /\ full_raw = <<>>
    /\ rle = <<>>
    /\ rows_runs = <<>>
    /\ run_pixels_total = 0

ConvIdle == conv_mode = "none" /\ conv_out = <<>>

CodecIdle == packed = <<>> /\ shifted = -1 /\ shifted_bytes = <<>>

CodecOff == chan = <<0, 0, 0>> /\ CodecIdle

\* one target (sys.argv[1], or the file chosen): any image of the bounds
Init ==
    /\ \/ \E s \in Shapes : \E im \in ImagesOf(s[1], s[2]) :
              targets = <<ImageTarget(im)>> /\ cimg = im
       \/ targets \in {<<MissingTarget>>, <<BadTarget>>} /\ cimg = NoImage
    /\ ti = 1
    /\ spc = "loop"
    /\ disk = [k \in 1..Len(targets) |-> <<>>]
    /\ SpansIdle
    /\ ConvIdle
    /\ CodecOff
    /\ PackOff

\* the *.png files of the directory (or nothing selected: main returns)
InitBatch ==
    /\ \E n \in 0..MaxTargets : targets \in [1..n -> BatchTargets]
    /\ ti = 1
    /\ spc = IF Len(targets) = 0 THEN "done" ELSE "loop"
    /\ disk = [k \in 1..Len(targets) |-> <<>>]
    /\ SpansIdle
    /\ cimg = NoImage
    /\ ConvIdle
    /\ CodecOff
    /\ PackOff

InitCodec ==
    /\ chan \in {c \in Channels \X Channels \X Channels :
                   Cardinality({k \in 1..3 : c[k] \in ChanSamples}) >= 2}
    /\ CodecIdle
    /\ targets = <<>>
    /\ ti = 1
    /\ spc = "done"
    /\ disk = <<>>
    /\ SpansIdle
    /\ cimg = NoImage
    /\ ConvIdle
    /\ PackOff

-----------------------------------------------------------------------------
(* make_spans.py: main, one iteration of `for src in targets` per step *)

InLoop == spc = "loop" /\ ti <= Len(targets)

Advance == IF ti + 1 > Len(targets) THEN "done" ELSE "loop"

\* lines 45-47
SkipNotFound ==
    /\ InLoop
    /\ targets[ti].kind = "missing"
    /\ ti' = ti + 1
    /\ spc' = Advance
    /\ UNCHANGED <<targets, full_raw, rle, rows_runs, run_pixels_total, disk>>
    /\ UNCHANGED <<convVars, codecVars, packVars>>

\* line 49 raising: nothing catches it, main ends with the traceback
OpenFails ==
    /\ InLoop
    /\ targets[ti].kind = "bad"
    /\ spc' = "crashed"
    /\ UNCHANGED <<targets, ti, full_raw, rle, rows_runs, run_pixels_total, disk>>
    /\ UNCHANGED <<convVars, codecVars, packVars>>

\* lines 95-100
MetaText(img, fr, fz, rl, total) ==
    [size |-> <<img.w, img.h>>, key_rgb |-> pick_key_color[2],
     key565 |-> UnpackH(pick_key_color[1]), full_raw_len |-> Len(fr),
     rle_len |-> Len(rl), opaque |-> <<total, img.w * img.h>>]

\* lines 49-101
ProcessImage ==
    /\ InLoop
    /\ targets[ti].kind = "image"
    /\ LET img    == targets[ti].img
           fr     == FullRaw(img)
           full_z == ZlibCompress(fr, 9)
           rl     == Rle(img)
           total  == RunPixelsTotal(img, 0)
       IN  /\ full_raw' = fr
           /\ rle' = rl
           /\ rows_runs' = [y \in 1..img.h |-> RowRuns(img, y - 1)]
           /\ run_pixels_total' = total
           /\ disk' = [disk EXCEPT ![ti] =
                         <<[full |-> full_z, rle |-> rl,
                            meta |-> MetaText(img, fr, full_z, rl, total)]>>]
    /\ ti' = ti + 1
    /\ spc' = Advance
    /\ UNCHANGED targets
    /\ UNCHANGED <<convVars, codecVars, packVars>>

SpansNext == SkipNotFound \/ OpenFails \/ ProcessImage

\* image_converter.py: to_rgb565_be_bytes(img), img in mode RGB or RGBA
ToRgb565BeBytes ==
    /\ conv_mode = "none"
    /\ targets[1].kind = "image"
    /\ \E mode \in {"RGB", "RGBA"} :
          /\ conv_mode' = mode
          /\ conv_out' = to_rgb565_be_bytes(IF mode = "RGB" THEN ConvertRGB(cimg) ELSE cimg)
    /\ UNCHANGED <<cimg, spansVars, codecVars, packVars>>

\* one pixel through both conversions
EncodePixel ==
    /\ shifted = -1
    /\ packed' = rgb888_to_rgb565_be(chan[1], chan[2], chan[3])
    /\ shifted' = rgb565_shift(chan[1], chan[2], chan[3])
    /\ shifted_bytes' = PackH(rgb565_shift(chan[1], chan[2], chan[3]))
    /\ UNCHANGED <<chan, spansVars, convVars, packVars>>

InitPack ==
    /\ level \in Levels
    /\ force \in BOOLEAN
    /\ overwrite \in BOOLEAN
    /\ \E S \in SUBSET (1..MaxFiles) :
          /\ fs_raw \in [S -> RawChoices]
          /\ fs_out \in [S -> {<<>>, <<OldZlib>>}]
    /\ PackIdle
    /\ targets = <<>>
    /\ ti = 1
    /\ spc = "done"
    /\ disk = <<>>
    /\ SpansIdle
    /\ cimg = NoImage
    /\ ConvIdle
    /\ CodecOff

\* lines 49-62: the level check, then the folder is listed and sorted
MainBegin ==
    /\ ppc = "start"
    /\ IF LevelInvalid(level)
       THEN /\ ppc' = "exit"
            /\ exit_code' = 2
            /\ UNCHANGED <<files, enumerated>>
       ELSE /\ \E g \in GlobOrders(DOMAIN fs_raw) : files' = sorted(g)
            /\ enumerated' = TRUE
            /\ IF files' = <<>>
               THEN ppc' = "exit" /\ exit_code' = 1
               ELSE ppc' = "loop" /\ exit_code' = exit_code
    /\ fi' = 1
    /\ ok' = 0
    /\ UNCHANGED <<level, force, overwrite, fs_raw, fs_out, attempts, results, last,
                   reads, writes>>
    /\ UNCHANGED <<spansVars, convVars, codecVars>>

\* lines 63-68: one iteration of `for f in files`, compress_one inside try/except
CompressStep ==
    /\ ppc = "loop"
    /\ fi <= Len(files)
    /\ \E rd \in BOOLEAN, wr \in {"ok", "denied", "partial"} :
          LET id == files[fi]
              r  == compress_one(id, fs_raw[id], fs_out[id], level, force, overwrite, rd, wr)
          IN  /\ ok' = OkAfter(ok, r.ret)
              /\ fs_out' = [fs_out EXCEPT ![id] = r.out]
              /\ attempts' = Append(attempts, id)
              /\ results' = Append(results, r.ret)
              /\ reads' = IF r.read THEN reads \cup {id} ELSE reads
              /\ writes' = IF r.wrote THEN writes \cup {id} ELSE writes
              /\ last' = [id |-> id, ret |-> r.ret, stage |-> r.stage,
                          out_before |-> fs_out[id], out_after |-> r.out,
                          read |-> r.read, wrote |-> r.wrote, ok_before |-> ok]
    /\ fi' = fi + 1
    /\ UNCHANGED <<level, force, overwrite, fs_raw, files, ppc, exit_code, enumerated>>
    /\ UNCHANGED <<spansVars, convVars, codecVars>>

\* lines 70-71
MainEnd ==
    /\ ppc = "loop"
    /\ fi > Len(files)
    /\ ppc' = "exit"
    /\ exit_code' = ExitStatus(ok, Len(files))
    /\ UNCHANGED <<level, force, overwrite, fs_raw, fs_out, files, fi, ok, attempts,
                   results, last, enumerated, reads, writes>>
    /\ UNCHANGED <<spansVars, convVars, codecVars>>

PackNext == MainBegin \/ CompressStep \/ MainEnd

vars == <<spansVars, convVars, codecVars, packVars>>

Next == SpansNext \/ ToRgb565BeBytes

Spec == Init /\ [][Next]_vars

SpecBatch == InitBatch /\ [][SpansNext]_vars

SpecCodec == InitCodec /\ [][EncodePixel]_vars

SpecPack == InitPack /\ [][PackNext]_vars

-----------------------------------------------------------------------------
(* What the statements below are measured against: the RGB565 layout         *)
(* RRRRRGGGGGGBBBBB by arithmetic, the transparency rule, and a reader of    *)
(* the sprite buffer layout [w][h][key565] {[runCount] {[startX][length]     *)
(* [length x RGB565]}}, all big-endian 16-bit.                               *)

Quant565(p) == (p[1] \div 8) * 2048 + (p[2] \div 4) * 32 + (p[3] \div 8)

Transparent(p) == (p[1] = 139 /\ p[2] = 227 /\ p[3] = 8) \/ p[4] = 0

U16(buf, pos) ==
    IF pos >= 1 /\ pos + 1 <= Len(buf) THEN buf[pos] * 256 + buf[pos + 1] ELSE -1

\* the writes <<x, y, value>> of one run of n values read from pos
RECURSIVE PaintRun(_, _, _, _, _)
PaintRun(buf, pos, x, y, n) ==
    IF n <= 0 THEN {}
    ELSE {<<x, y, U16(buf, pos)>>} \cup PaintRun(buf, pos + 2, x + 1, y, n - 1)

\* k runs of row y read from pos: the writes, and the position after them
RECURSIVE DecodeRuns(_, _, _, _)
DecodeRuns(buf, pos, y, k) ==
    IF k <= 0 THEN [writes |-> {}, pos |-> pos]
    ELSE LET sx   == U16(buf, pos)
             ln   == U16(buf, pos + 2)
             rest == DecodeRuns(buf, pos + 4 + 2 * (IF ln < 0 THEN 0 ELSE ln), y, k - 1)
         IN  [writes |-> PaintRun(buf, pos + 4, sx, y, ln) \cup rest.writes,
              pos |-> rest.pos]

RECURSIVE DecodeRows(_, _, _, _)
DecodeRows(buf, pos, y, h) ==
    IF y >= h THEN [writes |-> {}, pos |-> pos]
    ELSE LET row  == DecodeRuns(buf, pos + 2, y, U16(buf, pos))
             rest == DecodeRows(buf, row.pos, y + 1, h)
         IN  [writes |-> row.writes \cup rest.writes, pos |-> rest.pos]

DecodeSprite(buf) ==
    LET body == DecodeRows(buf, 7, 0, U16(buf, 3))
    IN  [w |-> U16(buf, 1), h |-> U16(buf, 3), key565 |-> U16(buf, 5),
         writes |-> body.writes, pos |-> body.pos]

\* the single target of Spec has been processed by make_spans
Processed == Len(targets) = 1 /\ disk[1] # <<>>

TheImg == targets[1].img

OpaqueCols(img, y) == {x \in 0..(img.w - 1) : ~Transparent(img.px[<<x, y>>])}

RunCols(run) == run[1]..(run[1] + run[2] - 1)

\* C1: decoding the sprite buffer written by make_spans and painting each
\* run's values at columns startX..startX+length-1 of its row writes, at every
\* coordinate whose source pixel is non-transparent, exactly the RGB565
\* encoding of that pixel, and writes nothing at a transparent coordinate (nor
\* outside the image); the header carries w, h and the key colour's RGB565,
\* and the reader consumes the buffer exactly.
C1_SpriteRoundTrip ==
    Processed =>
        LET img == TheImg
            d   == DecodeSprite(disk[1][1].rle)
        IN  /\ d.w = img.w /\ d.h = img.h
            /\ d.key565 = Quant565(<<139, 227, 8>>)
            /\ d.pos = Len(disk[1][1].rle) + 1
            /\ \A wr \in d.writes : <<wr[1], wr[2]>> \in Coords(img.w, img.h)
            /\ \A c \in Coords(img.w, img.h) :
                  {wr[3] : wr \in {u \in d.writes : u[1] = c[1] /\ u[2] = c[2]}}
                    = IF Transparent(img.px[c]) THEN {} ELSE {Quant565(img.px[c])}

\* an image of two rows or more with, in one row, a key-coloured pixel, an
\* alpha-zero pixel and a visible pixel whose RGB565 equals the key's
C1_Witness ==
    /\ Processed
    /\ TheImg.h >= 2
    /\ \E y \in 0..(TheImg.h - 1) : \E x1, x2, x3 \in 0..(TheImg.w - 1) :
          /\ TheImg.px[<<x1, y>>] = KeyOpaque
          /\ TheImg.px[<<x2, y>>] = RedClear
          /\ TheImg.px[<<x3, y>>] = NearKey

\* C2: row_runs of every row is the list of maximal spans of consecutive
\* non-transparent columns, left to right: lengths >= 1, starts strictly
\* increasing, consecutive runs separated by at least one transparent column,
\* union of the runs' columns = the non-transparent columns of the row; the
\* buffer holds 2 bytes of run count per row and 4 + 2*length bytes per run,
\* so a row without visible pixel has run count 0 and no payload.
C2_MaximalRuns ==
    Processed =>
        LET img == TheImg
        IN  /\ Len(rows_runs) = img.h
            /\ \A y \in 0..(img.h - 1) :
                  LET rr == rows_runs[y + 1]
                  IN  /\ \A k \in 1..Len(rr) : rr[k][2] >= 1 /\ rr[k][1] >= 0
                      /\ \A k \in 1..(Len(rr) - 1) :
                            /\ rr[k][1] < rr[k + 1][1]
                            /\ rr[k][1] + rr[k][2] < rr[k + 1][1]
                      /\ UNION {RunCols(rr[k]) : k \in 1..Len(rr)} = OpaqueCols(img, y)
                      /\ (OpaqueCols(img, y) = {} => rr = <<>>)
            /\ Len(rle) = 6 + 2 * img.h
                          + 4 * Cardinality(UNION {{<<y, k>> : k \in 1..Len(rows_runs[y])} :
                                                     y \in 1..img.h})
                          + 2 * Cardinality({c \in Coords(img.w, img.h) :
                                               ~Transparent(img.px[c])})
            /\ rle = disk[1][1].rle

\* a row with two runs (a transparent gap between them), one of them of two
\* adjacent visible pixels
C2_Witness ==
    /\ Processed
    /\ \E y \in 1..Len(rows_runs) :
          /\ Len(rows_runs[y]) = 2
          /\ \E k \in 1..2 : rows_runs[y][k][2] >= 2

DenseOk(buf, img) ==
    /\ Len(buf) = img.w * img.h * 2
    /\ \A c \in Coords(img.w, img.h) :
          LET off == 2 * (c[2] * img.w + c[1])
          IN  /\ buf[off + 1] = Quant565(img.px[c]) \div 256
              /\ buf[off + 2] = Quant565(img.px[c]) % 256

\* C9: the dense buffer (full_raw of make_spans, the result of
\* to_rgb565_be_bytes) has length w*h*2 and holds at offset 2*(y*w + x) the
\* big-endian RGB565 of pixel (x,y), key-coloured and alpha-zero ones included.
C9_DenseLayout ==
    /\ Processed => DenseOk(full_raw, TheImg)
                    /\ disk[1][1].full = ZlibCompress(full_raw, 9)
    /\ conv_mode # "none" => DenseOk(conv_out, cimg)

\* both encoders have run on an image of two rows and two columns or more
\* that holds a key-coloured and an alpha-zero pixel
C9_Witness ==
    /\ Processed
    /\ conv_mode = "RGBA"
    /\ TheImg.w >= 2 /\ TheImg.h >= 2
    /\ \E c1, c2, c3 \in Coords(TheImg.w, TheImg.h) :
          /\ TheImg.px[c1] = KeyOpaque
          /\ TheImg.px[c2] = RedClear
          /\ TheImg.px[c3] = GreenHalf

\* C10: for every r, g, b in 0..255 the masking form of rgb888_to_rgb565_be
\* and the shifting form of to_rgb565_be_bytes give the same value, in
\* 0..65535, laid out RRRRRGGGGGGBBBBB (r >> 3, g >> 2, b >> 3), serialized
\* as 2 bytes, high byte first.
C10_FormsAgree ==
    shifted # -1 =>
        /\ packed = shifted_bytes
        /\ Len(packed) = 2
        /\ packed[1] \in 0..255 /\ packed[2] \in 0..255
        /\ packed[1] * 256 + packed[2] = shifted
        /\ shifted \in 0..65535
        /\ shifted \div 2048 = chan[1] \div 8
        /\ (shifted \div 32) % 64 = chan[2] \div 4
        /\ shifted % 32 = chan[3] \div 8
        /\ packed[1] = shifted \div 256

\* the key colour 8B E3 08 encoded: 0x8F01, bytes 8F 01
C10_Witness == chan = <<139, 227, 8>> /\ shifted = 36609 /\ packed = <<143, 1>>

\* C7: a source image that cannot be opened does not abort the batch: once
\* main has ended, every image target after it has its artifacts written.
C7_BadImageDoesNotAbort ==
    spc # "loop" =>
        \A i, j \in 1..Len(targets) :
            (i < j /\ targets[i].kind = "bad" /\ targets[j].kind = "image")
                => disk[j] # <<>>

Called == last.id # 0

LastFile == fs_raw[last.id]

\* the last call got past the name check and read the file
LastRead == Called /\ LastFile.dims # NoDims /\ last.stage # "read"

LastExpected == LastFile.dims[1] * LastFile.dims[2] * 2

\* C3: a file named _<W>x<H>_rgb565_be.raw whose length differs from W*H*2:
\* with force = false compress_one returns failure and the .zlib output is
\* neither created nor modified; with force = true the size check does not
\* reject it: the call goes on to the output-exists check and, unless that
\* skips it or the write fails, writes the compressed data and returns success.
C3_SizeCheck ==
    (LastRead /\ LastFile.len # LastExpected) =>
        IF ~force
        THEN /\ last.ret = "False"
             /\ last.stage = "size"
             /\ ~last.wrote
             /\ last.out_after = last.out_before
             /\ fs_out[last.id] = last.out_before
             /\ ok = last.ok_before
        ELSE /\ last.stage \in {"exists", "ok", "write"}
             /\ last.ret # "False"
             /\ (last.stage = "exists" <=> (last.out_before # <<>> /\ ~overwrite))
             /\ last.stage = "ok" =>
                   /\ last.ret = "True"
                   /\ fs_out[last.id] =
                        <<ZlibCompress([src |-> last.id, len |-> LastFile.len], level)>>

\* foo_4x4_rgb565_be.raw holding 31 bytes, no output yet, force = false
C3_Witness ==
    /\ LastRead
    /\ ~force
    /\ LastFile = [dims |-> <<4, 4>>, len |-> 31]
    /\ last.out_before = <<>>
    /\ last.ret = "False"
    /\ fs_out[last.id] = <<>>

\* the same file with force = true: compressed
C3_WitnessForced ==
    /\ LastRead
    /\ force
    /\ LastFile = [dims |-> <<4, 4>>, len |-> 31]
    /\ last.stage = "ok"

\* C4: with overwrite = false no step changes the content of a .zlib output
\* that exists; and a call that passes the name and size checks while the
\* output exists reports the skip and returns success, counted in ok.
C4_KeepsExisting ==
    /\ [][overwrite = FALSE =>
            \A id \in DOMAIN fs_out : fs_out[id] # <<>> => fs_out'[id] = fs_out[id]]_vars
    /\ [](  (/\ ~overwrite
             /\ LastRead
             /\ (LastFile.len = LastExpected \/ force)
             /\ last.out_before # <<>>)
          => (/\ last.ret = "True"
              /\ last.stage = "exists"
              /\ ~last.wrote
              /\ fs_out[last.id] = last.out_before
              /\ ok = last.ok_before + 1))

C4_Witness ==
    /\ ~overwrite
    /\ LastRead
    /\ last.out_before = <<OldZlib>>
    /\ last.stage = "exists"
    /\ last.ret = "True"
    /\ fs_out[last.id] = <<OldZlib>>
    /\ ok = last.ok_before + 1

AllTrue == \A k \in 1..Len(results) : results[k] = "True"

\* C5: over a non-empty sorted list every file is attempted exactly once, in
\* order, whatever the earlier calls returned or raised, and the exit status
\* is 0 if and only if every call returned success, and 1 otherwise.
C5_BatchContinues ==
    enumerated =>
        /\ \A k \in 1..(Len(files) - 1) : files[k] < files[k + 1]
        /\ {files[k] : k \in 1..Len(files)} = DOMAIN fs_raw
        /\ Len(attempts) <= Len(files)
        /\ attempts = SubSeq(files, 1, Len(attempts))
        /\ Len(results) = Len(attempts)
        /\ ok = Cardinality({k \in 1..Len(results) : results[k] = "True"})
        /\ (ppc = "loop" => Len(attempts) = fi - 1)
        /\ (ppc = "exit" /\ files # <<>>) =>
              /\ attempts = files
              /\ exit_code \in {0, 1}
              /\ exit_code = 0 <=> AllTrue

\* the first file raised, the second was still attempted and succeeded
C5_Witness ==
    /\ ppc = "exit"
    /\ Len(files) >= 2
    /\ results[1] = "raise"
    /\ results[2] = "True"
    /\ exit_code = 1

\* C6: a *.raw file whose name does not match is skipped, neither read nor
\* compressed, and is not a failure of the batch: when every matching file
\* succeeded the exit status is 0.
C6_NonMatchingIsNoFailure ==
    /\ \A id \in DOMAIN fs_raw :
          fs_raw[id].dims = NoDims => id \notin reads /\ id \notin writes
    /\ (/\ ppc = "exit"
        /\ files # <<>>
        /\ \A k \in 1..Len(files) :
              fs_raw[files[k]].dims # NoDims => results[k] = "True")
       => exit_code = 0

\* C8: a level outside 0..9 ends the program with status 2 before the folder
\* is listed and before any file is read or written; compress_one is not called.
C8_LevelRejectedFirst ==
    (level < 0 \/ level > 9) =>
        /\ ppc \in {"start", "exit"}
        /\ (ppc = "exit" => exit_code = 2)
        /\ ~enumerated
        /\ files = <<>>
        /\ attempts = <<>>
        /\ reads = {} /\ writes = {}
        /\ ~Called

\* level -1, a folder that holds *.raw files: exit status 2
C8_Witness ==
    /\ level = -1
    /\ DOMAIN fs_raw # {}
    /\ ppc = "exit"
    /\ exit_code = 2

====
